---------------------------- MODULE Spec2Model ----------------------------
(***************************************************************************)
(* hexcrypt: UTF-8 text <-> RGB image.                                     *)
(*                                                                         *)
(*   src/src/encrypt.rs   encrypt, parse_size                              *)
(*   src/src/decrypt.rs   decrypt                                          *)
(*   src/src/error.rs     HexCryptError                                    *)
(*   src/src/main.rs      main (one encrypt or one decrypt per run)        *)
(*                                                                         *)
(* Data representation.                                                    *)
(*   Vec<u8> / String : a run-length sequence << <<byte, count>>, ... >>   *)
(*        in canonical form (count >= 1, neighbouring runs differ in the   *)
(*        byte), so that two byte strings are equal iff their run          *)
(*        sequences are.  It lets a text of 50 MB be a state.              *)
(*   u32              : a pair <<hi, lo>> of 16-bit halves                 *)
(*        (value hi * 2^16 + lo); TLC's integers are 32-bit signed and     *)
(*        cannot hold 2^32 - 1.                                            *)
(*   &str (size spec) : a sequence of one-character strings.               *)
(*   Option<T>        : [some |-> FALSE] or [some |-> TRUE, v |-> x].      *)
(***************************************************************************)
EXTENDS Integers, Sequences, FiniteSets

\* ------------------------------------------------------------------ bounds

\* Longest source text file enumerated byte by byte.
MaxLen == 4

\* Pixels of the images handed to decrypt that no encrypt run produced.
MaxExtPixels == 1

\* Longest size specifier enumerated character by character.
MaxStrLen == 4

\* ------------------------------------------------------- program constants

\* Bytes per RGB pixel: `buf.len() / 3`, `buf.extend(&[0, 0, 0])`.
Channels == 3

\* Significand of f32, the type of `(buf.len() / 3) as f32`.
F32MantissaBits == 24

\* char::from(0), the character decrypt trims.
NUL == 0

Half == 2^16
MinI32 == (-2147483647) - 1
MaxI32 == 2147483647

None == [some |-> FALSE]
Some(x) == [some |-> TRUE, v |-> x]

\* ------------------------------------------------------- byte strings (RLE)

RECURSIVE ByteLen(_)
\* Vec::len / str::len
ByteLen(v) == IF v = <<>> THEN 0 ELSE v[1][2] + ByteLen(Tail(v))

\* Vec::extend with n copies of byte b
ExtendBytes(v, b, n) ==
    IF n = 0 THEN v
    ELSE IF v # <<>> /\ v[Len(v)][1] = b
         THEN [v EXCEPT ![Len(v)] = <<b, v[Len(v)][2] + n>>]
         ELSE Append(v, <<b, n>>)

RECURSIVE Pack(_)
\* the byte string holding the bytes of the plain sequence s
Pack(s) ==
    IF s = <<>> THEN <<>>
    ELSE ExtendBytes(Pack(SubSeq(s, 1, Len(s) - 1)), s[Len(s)], 1)

RECURSIVE ByteAt(_, _)
\* v[i], 0-based as in the source
ByteAt(v, i) == IF i < v[1][2] THEN v[1][1] ELSE ByteAt(Tail(v), i - v[1][2])

RECURSIVE TakeBytes(_, _)
\* &v[..n]
TakeBytes(v, n) ==
    IF n = 0 \/ v = <<>> THEN <<>>
    ELSE IF v[1][2] >= n THEN << <<v[1][1], n>> >>
         ELSE <<v[1]>> \o TakeBytes(Tail(v), n - v[1][2])

HasByte(v, b) == \E i \in 1..Len(v) : v[i][1] = b

\* ---------------------------------------------------------------- UTF-8

IsCont(b) == b \in 128..191

RECURSIVE Utf8From(_, _)
\* core::str::from_utf8 on the plain byte sequence s from index i on
\* (the well-formed byte sequences of the Unicode standard, table 3-7).
Utf8From(s, i) ==
    IF i > Len(s) THEN TRUE
    ELSE LET b == s[i]
             n == Len(s)
             c1 == IF i + 1 <= n THEN s[i + 1] ELSE -1
             c2 == IF i + 2 <= n THEN s[i + 2] ELSE -1
             c3 == IF i + 3 <= n THEN s[i + 3] ELSE -1
         IN  IF b < 128 THEN Utf8From(s, i + 1)
             ELSE IF b \in 194..223 THEN IsCont(c1) /\ Utf8From(s, i + 2)
             ELSE IF b = 224 THEN c1 \in 160..191 /\ IsCont(c2) /\ Utf8From(s, i + 3)
             ELSE IF b = 237 THEN c1 \in 128..159 /\ IsCont(c2) /\ Utf8From(s, i + 3)
             ELSE IF b \in 225..239 THEN IsCont(c1) /\ IsCont(c2) /\ Utf8From(s, i + 3)
             ELSE IF b = 240 THEN c1 \in 144..191 /\ IsCont(c2) /\ IsCont(c3)
                                  /\ Utf8From(s, i + 4)
             ELSE IF b \in 241..243 THEN IsCont(c1) /\ IsCont(c2) /\ IsCont(c3)
                                         /\ Utf8From(s, i + 4)
             ELSE IF b = 244 THEN c1 \in 128..143 /\ IsCont(c2) /\ IsCont(c3)
                                  /\ Utf8From(s, i + 4)
             ELSE FALSE

RECURSIVE Unroll(_)
\* The plain bytes of v with every run cut to at most 4 bytes.  Cutting keeps
\* validity: an ASCII run is valid at any length, and 4 equal non-ASCII bytes
\* in a row are invalid (a lead byte cannot follow itself, at most 3
\* continuation bytes follow one another).
Unroll(v) ==
    IF v = <<>> THEN <<>>
    ELSE LET k == IF v[1][2] > 4 THEN 4 ELSE v[1][2]
         IN  [i \in 1..k |-> v[1][1]] \o Unroll(Tail(v))

\* String::from_utf8(buf).is_ok(), and the UTF-8 check of read_to_string
Utf8Valid(v) == Utf8From(Unroll(v), 1)

\* str::trim_matches(c): strips every leading and every trailing c.  NUL is a
\* one-byte character and byte 0 is part of no other character, so trimming
\* the character is trimming the byte.
trim_matches(v, c) ==
    LET a == IF v # <<>> /\ v[1][1] = c THEN Tail(v) ELSE v
    IN  IF a # <<>> /\ a[Len(a)][1] = c THEN SubSeq(a, 1, Len(a) - 1) ELSE a

\* ------------------------------------------------------------- u32 and i32

U32(n) == <<n \div Half, n % Half>>

\* the value of a u32 below 2^31 as an integer
IntOf(u) == u[1] * Half + u[2]

U32Le(a, b) == a[1] < b[1] \/ (a[1] = b[1] /\ a[2] <= b[2])

\* a * b for 16-bit a and b, as a u32 (the product is below 2^32)
Mul16(a, b) ==
    LET a1 == a \div 256
        a0 == a % 256
        b1 == b \div 256
        b0 == b % 256
        mid == a1 * b0 + a0 * b1
        low == a0 * b0 + (mid % 256) * 256
    IN  <<a1 * b1 + mid \div 256 + low \div Half, low % Half>>

\* `size.0 * size.1` on u32: the low 32 bits of the product, and whether the
\* product needed more (overflow-checks panics then, a release build wraps).
MulU32(w, h) ==
    LET hl == Mul16(w[1], h[2])
        lh == Mul16(w[2], h[1])
        ll == Mul16(w[2], h[2])
        hi == hl[2] + lh[2] + ll[1]
    IN  [val |-> <<hi % Half, ll[2]>>,
         ovf |-> (w[1] # 0 /\ h[1] # 0) \/ hl[1] # 0 \/ lh[1] # 0 \/ hi >= Half]

\* `x as i32` for a u32: two's complement reinterpretation
AsI32(u) == IF u[1] >= Half \div 2 THEN (u[1] - Half) * Half + u[2] ELSE IntOf(u)

\* a - k on i32 with 0 <= k: the wrapped difference, and whether it overflowed
SubI32(a, k) ==
    IF a < MinI32 + k
    THEN [val |-> MaxI32 - (k - (a - MinI32) - 1), ovf |-> TRUE]
    ELSE [val |-> a - k, ovf |-> FALSE]

\* ------------------------------------------------------- f32 square root

RECURSIVE Log2(_)
\* floor(log2(x)) for x >= 1
Log2(x) == IF x < 2 THEN 0 ELSE 1 + Log2(x \div 2)

\* `x as f32` for an integer 0 <= x < 2^30: x rounded to F32MantissaBits
\* significant bits, ties to even.
AsF32(x) ==
    IF x < 2^F32MantissaBits THEN x
    ELSE LET q == 2^(Log2(x) - (F32MantissaBits - 1))
             r == x % q
             lo == x - r
         IN  IF 2 * r < q THEN lo
             ELSE IF 2 * r > q THEN lo + q
             ELSE IF (lo \div q) % 2 = 0 THEN lo ELSE lo + q

RECURSIVE SqrtSearch(_, _, _)
\* the m in lo..hi with m*m <= x < (m+1)*(m+1)
SqrtSearch(x, lo, hi) ==
    IF lo = hi THEN lo
    ELSE LET mid == (lo + hi + 1) \div 2
         IN  IF mid * mid <= x THEN SqrtSearch(x, mid, hi)
                               ELSE SqrtSearch(x, lo, mid - 1)

ISqrt(x) == SqrtSearch(x, 0, IF x < 32768 THEN x ELSE 32768)

\* `x.sqrt().ceil() as u32` for an f32 x holding an integer 0 <= x < 2^30.
\* IEEE sqrt is the real root s rounded to the nearest f32.  With
\* m = floor(s) and m in [2^e, 2^(e+1)): a perfect square gives m; otherwise s
\* is irrational, lies in (m, m+1), and rounds to m exactly when
\* s < m + 2^(e-24) (half the spacing of f32 at m), which for x = m*m + d is
\* d * 2^(23-e) <= m; it needs e >= 12.  ceil then gives m, else m + 1.
SqrtCeilF32(x) ==
    LET m == ISqrt(x)
        d == x - m * m
        e == Log2(m)
    IN  IF d = 0 THEN m
        ELSE IF e >= F32MantissaBits \div 2
                /\ d * 2^((F32MantissaBits - 1) - e) <= m THEN m
        ELSE m + 1

\* ------------------------------------------------------------ parse_size

Digits == <<"0", "1", "2", "3", "4", "5", "6", "7", "8", "9">>

IsDigit(c) == \E i \in 1..10 : Digits[i] = c

DigitVal(c) == (CHOOSE i \in 1..10 : Digits[i] = c) - 1

RECURSIVE IndexOf(_, _, _)
\* the first index >= i of character c in s, 0 when there is none
IndexOf(s, c, i) ==
    IF i > Len(s) THEN 0 ELSE IF s[i] = c THEN i ELSE IndexOf(s, c, i + 1)

\* str::split_once('x'): the text before and after the first 'x'
split_once(s, c) ==
    LET i == IndexOf(s, c, 1)
    IN  IF i = 0 THEN None
        ELSE Some(<<SubSeq(s, 1, i - 1), SubSeq(s, i + 1, Len(s))>>)

RECURSIVE ParseDigits(_, _, _)
\* the digit loop of u32::from_str: acc * 10 + digit with checked arithmetic
ParseDigits(s, i, acc) ==
    IF i > Len(s) THEN Some(acc)
    ELSE IF ~IsDigit(s[i]) THEN None
    ELSE LET lo == acc[2] * 10 + DigitVal(s[i])
             hi == acc[1] * 10 + lo \div Half
         IN  IF hi >= Half THEN None
             ELSE ParseDigits(s, i + 1, <<hi, lo % Half>>)

\* ParseU32 without the check for an empty string: "" is 0.
ParseU32EmptyIsZero(s) ==
    IF s # <<>> /\ s[1] = "+"
    THEN IF Len(s) = 1 THEN None ELSE ParseDigits(s, 2, U32(0))
    ELSE ParseDigits(s, 1, U32(0))

\* str::parse::<u32>(): empty fails; one leading '+' is skipped (a lone "+"
\* fails); '-' is no digit for an unsigned type; then the digit loop.
ParseU32(s) ==
    IF s = <<>> THEN None
    ELSE IF s[1] = "+"
         THEN IF Len(s) = 1 THEN None ELSE ParseDigits(s, 2, U32(0))
         ELSE ParseDigits(s, 1, U32(0))

Ok(x) == [kind |-> "Ok", v |-> x]
Running == [kind |-> "Running"]
Panic == [kind |-> "Panic"]
IoError == [kind |-> "IoError"]
ImageError == [kind |-> "ImageError"]
BytesToString == [kind |-> "BytesToString"]
InvalidImageSize(s) == [kind |-> "InvalidImageSize", s |-> s]
CannotCreateImage(w, h) == [kind |-> "CannotCreateImage", w |-> w, h |-> h]

parse_size(s) ==
    LET sp == split_once(s, "x")
    IN  IF ~sp.some THEN InvalidImageSize(s)
        ELSE LET w == ParseU32(sp.v[1])
                 h == ParseU32(sp.v[2])
             IN  IF ~w.some THEN InvalidImageSize(s)
                 ELSE IF ~h.some THEN InvalidImageSize(s)
                 ELSE Ok(<<w.v, h.v>>)

\* ------------------------------------------------------------------ inputs

\* Byte values of the enumerated files and images: NUL, 'A', and the two
\* bytes of U+00E9 (a lead byte and a continuation byte).
ByteAlphabet == {NUL, 65, 195, 169}

SeqsUpTo(S, n) == UNION {[1..k -> S] : k \in 0..n}

\* A text of 4096 * 4096 pixels exactly, and one of a single pixel more.
BigTexts ==
    { << <<65, Channels * 2^F32MantissaBits>> >>,
      << <<65, Channels * (2^F32MantissaBits + 1)>> >> }

\* Contents of the file at `path` handed to encrypt.
SourceFiles == {Pack(s) : s \in SeqsUpTo(ByteAlphabet, MaxLen)} \cup BigTexts

\* Values of --size handed to encrypt: small sizes, zero sides, a product of
\* 2^32 (65536 x 65536), one of 2^32 - 1 (65535 x 65537), the largest u32,
\* and strings parse_size refuses.
SizeArgs ==
    { <<"0", "x", "0">>, <<"1", "x", "1">>, <<"1", "x", "2">>, <<"2", "x", "1">>,
      <<"2", "x", "2">>, <<"0", "x", "2">>, <<"+", "1", "x", "1">>,
      <<"6", "5", "5", "3", "6", "x", "6", "5", "5", "3", "6">>,
      <<"6", "5", "5", "3", "5", "x", "6", "5", "5", "3", "7">>,
      <<"4", "2", "9", "4", "9", "6", "7", "2", "9", "5", "x", "0">>,
      <<>>, <<"1", "6">>, <<"x", "1">>, <<"1", "x", "A">> }

\* RGB images of the file system that no encrypt run wrote.
ExtImages ==
    UNION { { [w |-> U32(d[1]), h |-> U32(d[2]), data |-> Pack(s)] :
                s \in [1..(Channels * d[1] * d[2]) -> ByteAlphabet] } :
            d \in {e \in (1..MaxExtPixels) \X (1..MaxExtPixels) :
                     e[1] * e[2] <= MaxExtPixels} }

\* ------------------------------------------------------------------- state

VARIABLES
    op,             \* main: "encrypt" or "decrypt", the function this run calls
    pc,             \* the statement the run is at
    overflowChecks, \* the build: integer overflow panics (TRUE) or wraps
    srcFile,        \* the text file at encrypt's `path`
    sizeArg,        \* encrypt's `size: Option<String>`
    text,           \* encrypt's `text`; decrypt's `text`
    buf,            \* `buf`
    size,           \* encrypt's `size` after the match: (u32, u32)
    img,            \* encrypt's `image`: Option<RgbImage>
    imgFile,        \* the image file: encrypt's output, decrypt's input
    origin,         \* who wrote imgFile: "none", "external", "encrypt", "failed"
    txtFile,        \* the text file decrypt writes
    result,         \* what the run returned: Running until it returns
    writes          \* files this run created

vars == <<op, pc, overflowChecks, srcFile, sizeArg, text, buf, size, img,
          imgFile, origin, txtFile, result, writes>>

NoImage == [w |-> U32(0), h |-> U32(0), data |-> <<>>]

\* Try with the error dropped (`.ok()`, `let _ =`): the run goes on.
TryIgnoringError(r, next) == next

\* The `?` operator: go on with an Ok, return the error otherwise.
Try(r, next) == IF r.kind = "Ok" THEN next ELSE "done"

Init ==
    /\ op \in {"encrypt", "decrypt"}
    /\ pc = "start"
    /\ overflowChecks \in BOOLEAN
    /\ IF op = "encrypt"
       THEN /\ srcFile \in SourceFiles
            /\ sizeArg \in {None} \cup {Some(s) : s \in SizeArgs}
            /\ imgFile = None
            /\ origin = "none"
       ELSE /\ srcFile = <<>>
            /\ sizeArg = None
            /\ imgFile \in {Some(i) : i \in ExtImages}
            /\ origin = "external"
    /\ text = <<>>
    /\ buf = <<>>
    /\ size = <<U32(0), U32(0)>>
    /\ img = None
    /\ txtFile = None
    /\ result = Running
    /\ writes = 0

\* ----------------------------------------------------------------- encrypt

\* let text = std::fs::read_to_string(path.clone())?;
\* let mut buf = text.as_bytes().to_owned();
EncryptRead ==
    /\ op = "encrypt" /\ pc = "start"
    /\ LET r == IF Utf8Valid(srcFile) THEN Ok(srcFile) ELSE IoError
       IN  /\ text' = IF r.kind = "Ok" THEN r.v ELSE text
           /\ buf' = IF r.kind = "Ok" THEN r.v ELSE buf
           /\ result' = IF r.kind = "Ok" THEN result ELSE r
           /\ pc' = Try(r, "size")
    /\ UNCHANGED <<op, overflowChecks, srcFile, sizeArg, size, img, imgFile,
                   origin, txtFile, writes>>

\* let n = ((buf.len() / 3) as f32).sqrt().ceil() as u32; (n, n)
DefaultSize(len) ==
    LET n == SqrtCeilF32(AsF32(len \div Channels))
    IN  <<U32(n), U32(n)>>

\* let size = match size { Some(s) => parse_size(&s)?, None => ... };
EncryptSize ==
    /\ op = "encrypt" /\ pc = "size"
    /\ LET r == IF sizeArg.some THEN parse_size(sizeArg.v)
                ELSE Ok(DefaultSize(ByteLen(buf)))
       IN  /\ size' = IF r.kind = "Ok" THEN r.v ELSE size
           /\ result' = IF r.kind = "Ok" THEN result ELSE r
           /\ pc' = Try(r, "diff")
    /\ UNCHANGED <<op, overflowChecks, srcFile, sizeArg, text, buf, img, imgFile,
                   origin, txtFile, writes>>

\* let diff = (size.0 * size.1) as i32 - (buf.len() / 3) as i32;
\* Ok(diff), or Panic where an operation overflows in a build that checks.
\* (buf.len() / 3 is below 2^31 for every file here, so its cast keeps it.)
Diff(sz, len, checks) ==
    LET p == MulU32(sz[1], sz[2])
        d == SubI32(AsI32(p.val), len \div Channels)
    IN  IF checks /\ (p.ovf \/ d.ovf) THEN Panic ELSE Ok(d.val)

RECURSIVE PadLoop(_, _)
\* for _ in 0..diff { buf.extend(&[0, 0, 0]); }
PadLoop(b, n) ==
    IF n = 0 THEN b
    ELSE PadLoop(ExtendBytes(ExtendBytes(ExtendBytes(b, 0, 1), 0, 1), 0, 1), n - 1)

\* match diff { 0 => {}, 1.. => pad, _ => return Err(CannotCreateImage) }
Capacity(sz, d) ==
    IF d >= 0 THEN Ok(d) ELSE CannotCreateImage(sz[1], sz[2])

EncryptDiff ==
    /\ op = "encrypt" /\ pc = "diff"
    /\ LET d == Diff(size, ByteLen(buf), overflowChecks)
           r == IF d.kind = "Ok" THEN Capacity(size, d.v) ELSE d
       IN  /\ buf' = IF r.kind = "Ok" THEN PadLoop(buf, r.v) ELSE buf
           /\ result' = IF r.kind = "Ok" THEN result ELSE r
           /\ pc' = Try(r, "build")
    /\ UNCHANGED <<op, overflowChecks, srcFile, sizeArg, text, size, img, imgFile,
                   origin, txtFile, writes>>

\* image::ImageBuffer::from_raw(width, height, buf).is_some(): the container
\* must hold at least width * height * 3 bytes ("Returns None if the container
\* is not big enough"); a longer container is accepted, and the bytes past
\* width * height * 3 belong to no pixel.
from_raw_fits(w, h, len) ==
    LET p == MulU32(w, h)
    IN  ~p.ovf /\ U32Le(p.val, U32(len \div Channels))

\* let image = RgbImage::from_raw(size.0, size.1, buf)
\*                 .ok_or(HexCryptError::CannotCreateImage(size.0, size.1))?;
EncryptBuild ==
    /\ op = "encrypt" /\ pc = "build"
    /\ LET r == IF from_raw_fits(size[1], size[2], ByteLen(buf))
                THEN Ok([w |-> size[1], h |-> size[2], data |-> buf])
                ELSE CannotCreateImage(size[1], size[2])
       IN  /\ img' = IF r.kind = "Ok" THEN Some(r.v) ELSE img
           /\ result' = IF r.kind = "Ok" THEN result ELSE r
           /\ pc' = Try(r, "save")
    /\ UNCHANGED <<op, overflowChecks, srcFile, sizeArg, text, buf, size, imgFile,
                   origin, txtFile, writes>>

\* The pixels of an ImageBuffer: the first width * height * 3 bytes.
Pixels(i) == TakeBytes(i.data, Channels * IntOf(MulU32(i.w, i.h).val))

\* image.save(image_path)?; Ok(())
\* The codec and the file system decide: the file is written; or the save
\* fails before creating the file; or it fails having created it.  An image
\* of no pixels is one the codec may refuse.
EncryptSave ==
    /\ op = "encrypt" /\ pc = "save"
    /\ \/ /\ imgFile' = Some([w |-> img.v.w, h |-> img.v.h, data |-> Pixels(img.v)])
          /\ origin' = "encrypt"
          /\ writes' = writes + 1
          /\ result' = Ok(<<>>)
       \/ /\ UNCHANGED <<imgFile, origin, writes>>
          /\ result' = ImageError
       \/ /\ imgFile' = Some(NoImage)
          /\ origin' = "failed"
          /\ writes' = writes + 1
          /\ result' = ImageError
    /\ pc' = "done"
    /\ UNCHANGED <<op, overflowChecks, srcFile, sizeArg, text, buf, size, img,
                   txtFile>>

\* ----------------------------------------------------------------- decrypt

\* let img = image::open(path.clone())?.into_rgb8();
\* let buf = img.as_raw().to_owned();
DecryptOpen ==
    /\ op = "decrypt" /\ pc = "start"
    /\ LET r == IF imgFile.some /\ origin # "failed"
                THEN Ok(imgFile.v.data) ELSE ImageError
       IN  /\ buf' = IF r.kind = "Ok" THEN r.v ELSE buf
           /\ result' = IF r.kind = "Ok" THEN result ELSE r
           /\ pc' = Try(r, "utf8")
    /\ UNCHANGED <<op, overflowChecks, srcFile, sizeArg, text, size, img, imgFile,
                   origin, txtFile, writes>>

\* let text_nulled = String::from_utf8(buf)?;
\* let text = text_nulled.trim_matches(char::from(0));
DecryptUtf8 ==
    /\ op = "decrypt" /\ pc = "utf8"
    /\ LET r == IF Utf8Valid(buf) THEN Ok(trim_matches(buf, NUL)) ELSE BytesToString
       IN  /\ text' = IF r.kind = "Ok" THEN r.v ELSE text
           /\ result' = IF r.kind = "Ok" THEN result ELSE r
           /\ pc' = Try(r, "write")
    /\ UNCHANGED <<op, overflowChecks, srcFile, sizeArg, buf, size, img, imgFile,
                   origin, txtFile, writes>>

\* let mut file = File::create(out_path)?;
\* file.write_all(text.as_bytes())?; Ok(())
\* The file system decides: the text is written; or create fails; or the
\* file is created and write_all fails.  A run that already holds an error
\* keeps it.
DecryptWrite ==
    /\ op = "decrypt" /\ pc = "write"
    /\ \/ /\ txtFile' = Some(text)
          /\ writes' = writes + 1
          /\ result' = IF result.kind = "Running" THEN Ok(<<>>) ELSE result
       \/ /\ UNCHANGED <<txtFile, writes>>
          /\ result' = IoError
       \/ /\ txtFile' = Some(<<>>)
          /\ writes' = writes + 1
          /\ result' = IoError
    /\ pc' = "done"
    /\ UNCHANGED <<op, overflowChecks, srcFile, sizeArg, text, buf, size, img,
                   imgFile, origin>>

\* -------------------------------------------------------------------- main

\* A second run of the program, `--decrypt` on the file the first run's
\* encrypt left: main starts with fresh locals; the files stay.
DecryptNext ==
    /\ op = "encrypt" /\ pc = "done" /\ imgFile.some
    /\ op' = "decrypt"
    /\ pc' = "start"
    /\ text' = <<>>
    /\ buf' = <<>>
    /\ img' = None
    /\ result' = Running
    /\ writes' = 0
    /\ UNCHANGED <<overflowChecks, srcFile, sizeArg, size, imgFile, origin, txtFile>>

Next ==
    \/ EncryptRead
    \/ EncryptSize
    \/ EncryptDiff
    \/ EncryptBuild
    \/ EncryptSave
    \/ DecryptOpen
    \/ DecryptUtf8
    \/ DecryptWrite
    \/ DecryptNext

Spec == Init /\ [][Next]_vars

\* ------------------------------------------------ parse_size on its own

\* Size specifiers: every string of at most MaxStrLen characters over
\* CharAlphabet, and longer ones around the ends of the u32 range.
CharAlphabet == {"0", "1", "9", "x", "+", "A", " "}

LongSpecs ==
    { <<"1", "6", "x", "3", "2">>,
      <<"1", "x", "2", "x", "3">>,
      <<" ", "1", "6", "x", "3", "2">>,
      <<"1", "6", "x", "3", "2", " ">>,
      <<"1", "6", "X", "3", "2">>,
      <<"-", "1", "x", "1">>,
      <<"0", "0", "0", "0", "0", "0", "0", "0", "0", "0", "7", "x", "1">>,
      <<"4", "2", "9", "4", "9", "6", "7", "2", "9", "5", "x", "1">>,
      <<"4", "2", "9", "4", "9", "6", "7", "2", "9", "6", "x", "1">>,
      <<"1", "x", "4", "2", "9", "4", "9", "6", "7", "2", "9", "6">>,
      <<"1", "x", "9", "9", "9", "9", "9", "9", "9", "9", "9", "9", "9">>,
      <<"6", "5", "5", "3", "6", "x", "6", "5", "5", "3", "6">> }

ParseInputs == SeqsUpTo(CharAlphabet, MaxStrLen) \cup LongSpecs

InitParse ==
    /\ op = "parse_size"
    /\ pc = "start"
    /\ overflowChecks = FALSE
    /\ srcFile = <<>>
    /\ sizeArg \in {Some(s) : s \in ParseInputs}
    /\ text = <<>>
    /\ buf = <<>>
    /\ size = <<U32(0), U32(0)>>
    /\ img = None
    /\ imgFile = None
    /\ origin = "none"
    /\ txtFile = None
    /\ result = Running
    /\ writes = 0

\* parse_size(&s)
ParseSize ==
    /\ op = "parse_size" /\ pc = "start"
    /\ result' = parse_size(sizeArg.v)
    /\ size' = IF result'.kind = "Ok" THEN result'.v ELSE size
    /\ pc' = "done"
    /\ UNCHANGED <<op, overflowChecks, srcFile, sizeArg, text, buf, img, imgFile,
                   origin, txtFile, writes>>

SpecParse == InitParse /\ [][ParseSize]_vars

\* ======================================================================
\* Properties
\* ======================================================================

\* ceil(len / 3): the pixels a text of len bytes needs
RequiredPixels(len) == (len + (Channels - 1)) \div Channels

\* ceil(sqrt(k)) on the integers, 0 <= k < 2^30
CeilSqrt(k) == LET m == ISqrt(k) IN IF m * m = k THEN m ELSE m + 1

\* w * h < k and w * h >= k for the product on the integers, 0 <= k < 2^31
ProductBelow(w, h, k) ==
    LET p == MulU32(w, h) IN ~p.ovf /\ ~U32Le(U32(k), p.val)

ProductAtLeast(w, h, k) == ~ProductBelow(w, h, k)

\* v without its maximal run of NUL at the end
TrimEndNul(v) ==
    IF v # <<>> /\ v[Len(v)][1] = NUL THEN SubSeq(v, 1, Len(v) - 1) ELSE v

\* a text file encrypt can read, whose length is a multiple of 3, without NUL
PlainText(v) ==
    /\ Utf8Valid(v)
    /\ ByteLen(v) % Channels = 0
    /\ ~HasByte(v, NUL)

\* The run has a size: the match of encrypt.rs:43-49 returned it.
HasSize == op = "encrypt" /\ pc \in {"diff", "build", "save"}

EncryptDone == op = "encrypt" /\ pc = "done"

\* decrypt has finished on the image the encrypt run before it wrote
DecryptedOwn == op = "decrypt" /\ pc = "done" /\ origin = "encrypt"

\* ------------------------------------------------------------------- C1
\* C1: round trip with the default size.  For a text T, valid UTF-8, of a
\* byte length that is a multiple of 3 and without NUL, encrypt with no size
\* returns no error of its own (it may only fail in the codec or the file
\* system), and decrypt of the image it wrote writes exactly T.
C1_RoundTripDefault ==
    (PlainText(srcFile) /\ ~sizeArg.some) =>
        /\ EncryptDone => result.kind \in {"Ok", "ImageError"}
        /\ DecryptedOwn => result.kind \in {"Ok", "IoError"}
        /\ (DecryptedOwn /\ result.kind = "Ok") => txtFile = Some(srcFile)

\* ------------------------------------------------------------------- C2
\* C2: padding property.  With no size given, the size chosen for a text of
\* L bytes is (n, n) with n = ceil(sqrt(ceil(L / 3))), and n * n * 3 >= L.
C2_DefaultSizeCoversSource ==
    (HasSize /\ ~sizeArg.some) =>
        LET L == ByteLen(text)
            n == CeilSqrt(RequiredPixels(L))
        IN  /\ size = <<U32(n), U32(n)>>
            /\ ProductAtLeast(size[1], size[2], RequiredPixels(L))

\* ------------------------------------------------------------------- C3
\* C3: capacity rejection.  With an explicit size (w, h) and a text that needs
\* k = ceil(L / 3) pixels, w * h < k makes encrypt fail with
\* CannotCreateImage(w, h).
C3_TooSmallIsRejected ==
    (EncryptDone /\ sizeArg.some /\ Utf8Valid(srcFile)
       /\ result.kind # "InvalidImageSize"
       /\ ProductBelow(size[1], size[2], RequiredPixels(ByteLen(srcFile)))) =>
        result = CannotCreateImage(size[1], size[2])

\* ------------------------------------------------------------------- C4
\* C4: decrypt trims NUL at the end only.  The text written is the decoded
\* string without its maximal run of NUL at the end; NUL before the last
\* other character, at the very start included, stays.
C4_TrimsTrailingNulOnly ==
    (op = "decrypt" /\ pc = "done" /\ result.kind = "Ok") =>
        txtFile = Some(TrimEndNul(imgFile.v.data))

\* ------------------------------------------------------------------- C5
\* the decimal digits of a u32, without leading zeros
RECURSIVE Decimal(_)
Decimal(u) ==
    LET t == (u[1] % 10) * Half + u[2]
        q == <<u[1] \div 10, t \div 10>>
    IN  IF q = U32(0) THEN <<Digits[(t % 10) + 1]>>
        ELSE Append(Decimal(q), Digits[(t % 10) + 1])

RECURSIVE StripZeros(_)
StripZeros(t) == IF Len(t) > 1 /\ t[1] = "0" THEN StripZeros(Tail(t)) ELSE t

MaxU32Digits == <<"4", "2", "9", "4", "9", "6", "7", "2", "9", "5">>

RECURSIVE DigitsLe(_, _)
\* a <= b for digit strings of one length
DigitsLe(a, b) ==
    IF a = <<>> THEN TRUE
    ELSE IF DigitVal(a[1]) # DigitVal(b[1]) THEN DigitVal(a[1]) < DigitVal(b[1])
    ELSE DigitsLe(Tail(a), Tail(b))

\* t is a decimal numeral of a value at most 2^32 - 1: digits only
Numeral(t) ==
    /\ t # <<>>
    /\ \A i \in 1..Len(t) : IsDigit(t[i])
    /\ LET u == StripZeros(t)
       IN  Len(u) < Len(MaxU32Digits)
           \/ (Len(u) = Len(MaxU32Digits) /\ DigitsLe(u, MaxU32Digits))

\* a numeral, or '+' and a numeral
SignedNumeral(t) == Numeral(t) \/ (t # <<>> /\ t[1] = "+" /\ Numeral(Tail(t)))

Unsigned(t) == IF t # <<>> /\ t[1] = "+" THEN Tail(t) ELSE t

\* the sides of s around its first 'x'
Left(s) == SubSeq(s, 1, IndexOf(s, "x", 1) - 1)
Right(s) == SubSeq(s, IndexOf(s, "x", 1) + 1, Len(s))

\* s is <w>x<h>, both sides numerals: then neither side holds an 'x'
StrictForm(s) == IndexOf(s, "x", 1) # 0 /\ Numeral(Left(s)) /\ Numeral(Right(s))

AmendedForm(s) ==
    IndexOf(s, "x", 1) # 0 /\ SignedNumeral(Left(s)) /\ SignedNumeral(Right(s))

\* what parse_size returned is right for s, given that `accepted` says
\* whether s is to be accepted
ParseAnswer(s, accepted) ==
    IF accepted
    THEN /\ result.kind = "Ok"
         /\ Decimal(result.v[1]) = StripZeros(Unsigned(Left(s)))
         /\ Decimal(result.v[2]) = StripZeros(Unsigned(Right(s)))
    ELSE result = InvalidImageSize(s)

\* C5 as stated: parse_size(s) returns (w, h) exactly when s is <w>x<h> with
\* one 'x' and both sides unsigned 32-bit decimal integers; every other
\* string fails with InvalidImageSize(s).
C5_ParseExactlyNumerals ==
    (op = "parse_size" /\ pc = "done") =>
        ParseAnswer(sizeArg.v, StrictForm(sizeArg.v))

\* C5, amended: parse_size(s) returns (w, h) exactly when s is <w>x<h> where
\* each side is a decimal numeral of a value at most 2^32 - 1, optionally
\* preceded by one '+'; w and h are the values of the numerals; every other
\* string fails with InvalidImageSize(s), s unchanged.
C5_ParseSignedNumerals ==
    (op = "parse_size" /\ pc = "done") =>
        ParseAnswer(sizeArg.v, AmendedForm(sizeArg.v))

C5_Witness ==
    /\ op = "parse_size" /\ pc = "done"
    /\ sizeArg.v = <<"1", "6", "x", "3", "2">>
    /\ result = Ok(<<U32(16), U32(32)>>)

\* ------------------------------------------------------------------- C6
\* the image of w x h pixels whose pixel i holds bytes 3i, 3i+1, 3i+2 of t
\* for i < L / 3 and (0, 0, 0) after
PaddedImage(i, t, w, h) ==
    LET n == IntOf(MulU32(w, h).val)
        k == ByteLen(t) \div Channels
    IN  /\ i.w = w /\ i.h = h
        /\ ByteLen(i.data) = Channels * n
        /\ \A j \in 0..(n - 1) : \A c \in 0..(Channels - 1) :
              ByteAt(i.data, Channels * j + c)
                = IF j < k THEN ByteAt(t, Channels * j + c) ELSE 0

\* C6: explicit size, padding and round trip.  For a text T without NUL of
\* L bytes, L a multiple of 3, and an explicit size (w, h) with
\* w * h >= L / 3, encrypt writes the image of w * h pixels that holds T and
\* then zero pixels, and decrypt of it writes exactly T.
C6_ExplicitSizeRoundTrip ==
    (PlainText(srcFile) /\ sizeArg.some
       /\ (EncryptDone \/ DecryptedOwn)
       /\ parse_size(sizeArg.v).kind = "Ok"
       /\ ProductAtLeast(size[1], size[2], ByteLen(srcFile) \div Channels)) =>
        /\ EncryptDone => result.kind \in {"Ok", "ImageError"}
        /\ (EncryptDone /\ result.kind = "Ok") =>
              PaddedImage(imgFile.v, srcFile, size[1], size[2])
        /\ DecryptedOwn => result.kind \in {"Ok", "IoError"}
        /\ (DecryptedOwn /\ result.kind = "Ok") => txtFile = Some(srcFile)

\* ------------------------------------------------------------------- C7
\* C7: dimensions invariant.  A pixel buffer is constructed only from a byte
\* buffer of exactly width * height * 3 bytes; a run that reached the
\* construction with another length returns CannotCreateImage(width, height).
C7_BufferLengthIsExact ==
    (op = "encrypt" /\ img.some) =>
        LET p == MulU32(img.v.w, img.v.h)
        IN  /\ ~p.ovf
            /\ ByteLen(img.v.data) % Channels = 0
            /\ p.val = U32(ByteLen(img.v.data) \div Channels)

\* ------------------------------------------------------------------- C8
AllZeros(t) == t # <<>> /\ \A i \in 1..Len(t) : t[i] = "0"

\* s is <w>x<h> with w or h zero
ZeroAreaSpec(s) == StrictForm(s) /\ (AllZeros(Left(s)) \/ AllZeros(Right(s)))

\* C8: zero-area sizes.  parse_size accepts a zero width or height, and
\* encrypt of a text of at least one byte with such a size fails with
\* CannotCreateImage(w, h) and writes no image.
C8_ZeroAreaIsRejected ==
    (op = "encrypt" /\ sizeArg.some /\ ZeroAreaSpec(sizeArg.v)
       /\ Utf8Valid(srcFile) /\ ByteLen(srcFile) >= 1) =>
        /\ result.kind # "InvalidImageSize"
        /\ pc = "done" =>
              /\ result = CannotCreateImage(size[1], size[2])
              /\ imgFile = None

\* ------------------------------------------------------------------- C9
OwnErrors == {"InvalidImageSize", "CannotCreateImage", "BytesToString"}

FilesChange == imgFile' # imgFile \/ txtFile' # txtFile \/ writes' # writes

\* C9: all or nothing.  Within a run, a file is created or written only by the
\* last statement (image.save, File::create and write_all) and only while no
\* step before it has failed; a run that returns InvalidImageSize,
\* CannotCreateImage or BytesToString has created and changed no file; a run
\* that returns Ok has written exactly one.
C9_AllOrNothing ==
    [][ /\ (op' = op /\ FilesChange) =>
              (pc \in {"save", "write"} /\ result.kind = "Running")
        /\ result'.kind \in OwnErrors =>
              (writes' = 0 /\ imgFile' = imgFile /\ txtFile' = txtFile)
        /\ result'.kind = "Ok" => writes' = 1 ]_vars

C9_Witness ==
    /\ op = "decrypt" /\ pc = "done"
    /\ result = BytesToString
    /\ writes = 0 /\ txtFile = None

\* ------------------------------------------------------------------ C10
\* C10: the capacity check is exact.  For parsed w and h and a text of L
\* bytes, the check of encrypt.rs:51-61 lets the run on exactly when
\* w * h >= floor(L / 3) on the integers, returns CannotCreateImage(w, h)
\* otherwise, and never panics.
C10_CapacityCheckIsExact ==
    [][ (op = "encrypt" /\ pc = "diff" /\ sizeArg.some) =>
          IF ProductAtLeast(size[1], size[2], ByteLen(buf) \div Channels)
          THEN pc' = "build"
          ELSE result' = CannotCreateImage(size[1], size[2]) ]_vars

=============================================================================
